---------------------------- MODULE Spec2Model ----------------------------
(***************************************************************************)
(* Model of build.py, the build orchestrator of GPU-Governor-Core:        *)
(* GPUGovernorBuilder (dependency check, build pipeline, copy, compress,  *)
(* clean) and main(), run against a filesystem and external commands      *)
(* whose outcomes are inputs.                                              *)
(***************************************************************************)
EXTENDS Integers, Sequences, FiniteSets, TLC

\* Longest file content (in bytes) the model enumerates.
MaxLen == 2

\* Number of successive invocations of the script on the same filesystem.
MaxRuns == 2

\* Bytes a file is made of: the program reads the size of a file and copies
\* its content, never a byte of it.
Byte == {0}

\* Every file content up to MaxLen bytes; os.path.getsize is Len.
Contents == UNION {[1..n -> Byte] : n \in 0..MaxLen}

-----------------------------------------------------------------------------
(* Configuration of GPUGovernorBuilder.__init__ and the paths built from it *)

android_ndk_home == "D:/android-ndk-r27c"
llvm_path == "D:/LLVM"
upx_path == "D:/upx/upx.exe"
target == "aarch64-linux-android"
binary_name == "gpugovernor"
output_dir == "output"

source_path == "target/aarch64-linux-android/release/gpugovernor"
binary_path == "output/gpugovernor"
compressed_copy == "output/gpugovernor_compressed"

\* Paths of which only the existence is read (os.path.exists, makedirs, rmtree):
\* the two toolchain directories, the compressor, the output directory.
ExistPaths == {android_ndk_home, llvm_path, upx_path, output_dir}

\* Paths at which a regular file may be: the three binaries, and the path of
\* the output directory itself, which a regular file may occupy.
FilePaths == {source_path, binary_path, compressed_copy, output_dir}

\* Files that live inside the output directory.
OutputFiles == {binary_path, compressed_copy}

(* The external command lines *)
fmt_cmd == <<"cargo", "fmt", "--check">>
fmt_fix_cmd == <<"cargo", "fmt">>
clippy_cmd == <<"cargo", "clippy", "--", "-D", "warnings">>
build_cmd == <<"cargo", "build", "--release", "--target", target>>
clean_cmd == <<"cargo", "clean">>

\* Outcomes of subprocess.run(..., check=True): it returns (exit status 0),
\* raises CalledProcessError (non-zero exit status), or raises OSError when
\* the executable cannot be launched.
RunOutcomes == {"ok", "nonzero", "oserror"}

-----------------------------------------------------------------------------
(* The process environment: a string is a sequence of characters *)

\* Longest pre-existing value of PATH the model enumerates.
MaxPathLen == 3

\* Characters a pre-existing PATH is made of: a letter, the separator, and the
\* two quote characters.
PathChars == {"a", ";", "\"", "'"}

QuoteChars == {"\"", "'"}

Strings == UNION {[1..n -> PathChars] : n \in 0..MaxPathLen}

\* str.replace(ch, ""): every occurrence of ch is dropped.
replace_with_empty(str, ch) == SelectSeq(str, LAMBDA c : c # ch)

Contains(str, ch) == \E i \in 1..Len(str) : str[i] = ch

\* Mutant: only the double quote is stripped.
clean_path_string_double_only(path_str) == replace_with_empty(path_str, "\"")

clean_path_string(path_str) ==
    replace_with_empty(replace_with_empty(path_str, "\""), "'")

\* self.android_ndk_home, character by character.
android_ndk_home_chars ==
    <<"D", ":", "/", "a", "n", "d", "r", "o", "i", "d", "-", "n", "d",
      "k", "-", "r", "2", "7", "c">>

\* self.llvm_path, character by character.
llvm_path_chars ==
    <<"D", ":", "/", "L", "L", "V", "M">>

\* The literal parts of the f-strings of _setup_environment.
linker_suffix ==
    <<"/", "t", "o", "o", "l", "c", "h", "a", "i", "n", "s", "/", "l",
      "l", "v", "m", "/", "p", "r", "e", "b", "u", "i", "l", "t", "/",
      "w", "i", "n", "d", "o", "w", "s", "-", "x", "8", "6", "_", "6",
      "4", "/", "b", "i", "n", "/", "a", "a", "r", "c", "h", "6", "4",
      "-", "l", "i", "n", "u", "x", "-", "a", "n", "d", "r", "o", "i",
      "d", "3", "3", "-", "c", "l", "a", "n", "g", ".", "c", "m", "d">>

bin_suffix ==
    <<"/", "b", "i", "n">>

bindgen_prefix ==
    <<"-", "-", "t", "a", "r", "g", "e", "t", "=", "a", "a", "r", "c",
      "h", "6", "4", "-", "l", "i", "n", "u", "x", "-", "a", "n", "d",
      "r", "o", "i", "d", " ", "-", "I">>

sysroot_suffix ==
    <<"/", "t", "o", "o", "l", "c", "h", "a", "i", "n", "s", "/", "l",
      "l", "v", "m", "/", "p", "r", "e", "b", "u", "i", "l", "t", "/",
      "w", "i", "n", "d", "o", "w", "s", "-", "x", "8", "6", "_", "6",
      "4", "/", "s", "y", "s", "r", "o", "o", "t", "/", "u", "s", "r",
      "/", "i", "n", "c", "l", "u", "d", "e">>

ndk_bin_suffix ==
    <<"/", "t", "o", "o", "l", "c", "h", "a", "i", "n", "s", "/", "l",
      "l", "v", "m", "/", "p", "r", "e", "b", "u", "i", "l", "t", "/",
      "w", "i", "n", "d", "o", "w", "s", "-", "x", "8", "6", "_", "6",
      "4", "/", "b", "i", "n">>

\* ";".join(parts) for the three parts of the new PATH.
join3(a, b, c) == a \o <<";">> \o b \o <<";">> \o c

\* os.environ.get(name, "")
environ_get(env, name) == IF name \in DOMAIN env THEN env[name] ELSE <<>>

\* os.environ[name] = value for every name of the mapping written.
environ_update(env, written) ==
    [k \in DOMAIN env \cup DOMAIN written |->
        IF k \in DOMAIN written THEN written[k] ELSE env[k]]

\* The upper-case letters and, at the same index, their lower-case letters.
upper_letters ==
    <<"A", "B", "C", "D", "E", "F", "G", "H", "I", "J", "K", "L", "M",
      "N", "O", "P", "Q", "R", "S", "T", "U", "V", "W", "X", "Y", "Z">>

lower_letters ==
    <<"a", "b", "c", "d", "e", "f", "g", "h", "i", "j", "k", "l", "m",
      "n", "o", "p", "q", "r", "s", "t", "u", "v", "w", "x", "y", "z">>

\* str.lower(), character by character.
lower(str) ==
    [i \in 1..Len(str) |->
        IF \E n \in 1..Len(upper_letters) : upper_letters[n] = str[i]
        THEN lower_letters[CHOOSE n \in 1..Len(upper_letters) :
                             upper_letters[n] = str[i]]
        ELSE str[i]]

\* keyword in str
has_substring(str, keyword) ==
    \E i \in 0..(Len(str) - Len(keyword)) :
        \A j \in 1..Len(keyword) : str[i + j] = keyword[j]

\* The characters of the name of an environment variable.
name_chars(name) ==
    CASE name = "PATH" ->
        <<"P", "A", "T", "H">>
      [] name = "Path" ->
        <<"P", "a", "t", "h">>
      [] name = "path" ->
        <<"p", "a", "t", "h">>
      [] name = "HOME" ->
        <<"H", "O", "M", "E">>
      [] name = "JAVA_HOME" ->
        <<"J", "A", "V", "A", "_", "H", "O", "M", "E">>
      [] name = "TMPDIR" ->
        <<"T", "M", "P", "D", "I", "R">>
      [] name = "OTHER" ->
        <<"O", "T", "H", "E", "R">>
      [] name = "MY_Dir_X" ->
        <<"M", "Y", "_", "D", "i", "r", "_", "X">>
      [] name = "CLASSPATH" ->
        <<"C", "L", "A", "S", "S", "P", "A", "T", "H">>
      [] name = "ANDROID_NDK_HOME" ->
        <<"A", "N", "D", "R", "O", "I", "D", "_", "N", "D", "K", "_", "H",
          "O", "M", "E">>
      [] name = "LLVM_PATH" ->
        <<"L", "L", "V", "M", "_", "P", "A", "T", "H">>
      [] name = "LIBCLANG_PATH" ->
        <<"L", "I", "B", "C", "L", "A", "N", "G", "_", "P", "A", "T", "H">>
      [] name = "CARGO_TARGET_AARCH64_LINUX_ANDROID_LINKER" ->
        <<"C", "A", "R", "G", "O", "_", "T", "A", "R", "G", "E", "T", "_",
          "A", "A", "R", "C", "H", "6", "4", "_", "L", "I", "N", "U", "X",
          "_", "A", "N", "D", "R", "O", "I", "D", "_", "L", "I", "N", "K",
          "E", "R">>
      [] name = "BINDGEN_EXTRA_CLANG_ARGS" ->
        <<"B", "I", "N", "D", "G", "E", "N", "_", "E", "X", "T", "R", "A",
          "_", "C", "L", "A", "N", "G", "_", "A", "R", "G", "S">>
      [] name = "CARGO_HOME" ->
        <<"C", "A", "R", "G", "O", "_", "H", "O", "M", "E">>
      [] name = "RUSTUP_HOME" ->
        <<"R", "U", "S", "T", "U", "P", "_", "H", "O", "M", "E">>
      [] name = "TEMP" ->
        <<"T", "E", "M", "P">>
      [] name = "TMP" ->
        <<"T", "M", "P">>
      [] name = "PWD" ->
        <<"P", "W", "D">>
      [] name = "OLDPWD" ->
        <<"O", "L", "D", "P", "W", "D">>
      [] name = "USER" ->
        <<"U", "S", "E", "R">>
      [] name = "SHELL" ->
        <<"S", "H", "E", "L", "L">>
      [] name = "LANG" ->
        <<"L", "A", "N", "G">>
      [] name = "PATHEXT" ->
        <<"P", "A", "T", "H", "E", "X", "T">>
      [] name = "windir" ->
        <<"w", "i", "n", "d", "i", "r">>
      [] name = "SystemRoot" ->
        <<"S", "y", "s", "t", "e", "m", "R", "o", "o", "t">>
      [] name = "HOMEDRIVE" ->
        <<"H", "O", "M", "E", "D", "R", "I", "V", "E">>
      [] name = "HOMEPATH" ->
        <<"H", "O", "M", "E", "P", "A", "T", "H">>
      [] name = "USERPROFILE" ->
        <<"U", "S", "E", "R", "P", "R", "O", "F", "I", "L", "E">>

\* The keywords that mark the name of a variable holding a path.
path_keywords == {<<"p", "a", "t", "h">>, <<"d", "i", "r">>, <<"h", "o", "m", "e">>}

\* any(keyword in key.lower() for keyword in ["path", "dir", "home"])
has_keyword(key) ==
    \E keyword \in path_keywords : has_substring(lower(name_chars(key)), keyword)

\* For every variable of names that is set and holds a double quote, the
\* double quotes are dropped from its value.
strip_double(env, names) ==
    [k \in DOMAIN env |->
        IF k \in names /\ Contains(env[k], "\"")
        THEN replace_with_empty(env[k], "\"")
        ELSE env[k]]

\* _clean_path_environment: PATH, then Path and path.
_clean_path_environment(env) ==
    strip_double(strip_double(env, {"PATH"}), {"Path", "path"})

\* _clean_system_path: PATH, Path and path, then every variable whose
\* lower-cased name contains one of the keywords.
_clean_system_path(env) ==
    LET first == strip_double(env, {"PATH", "Path", "path"}) IN
      strip_double(first, {k \in DOMAIN first : has_keyword(k)})

\* The dictionary env_vars of _setup_environment, PATH included.
env_vars(env) ==
    LET ndk == clean_path_string(android_ndk_home_chars)
        llvm == clean_path_string(llvm_path_chars)
        current_path == clean_path_string(environ_get(env, "PATH")) IN
      [k \in {"ANDROID_NDK_HOME", "LLVM_PATH",
              "CARGO_TARGET_AARCH64_LINUX_ANDROID_LINKER", "LIBCLANG_PATH",
              "BINDGEN_EXTRA_CLANG_ARGS", "PATH"} |->
         CASE k = "ANDROID_NDK_HOME" -> ndk
           [] k = "LLVM_PATH" -> llvm
           [] k = "CARGO_TARGET_AARCH64_LINUX_ANDROID_LINKER" -> ndk \o linker_suffix
           [] k = "LIBCLANG_PATH" -> llvm \o bin_suffix
           [] k = "BINDGEN_EXTRA_CLANG_ARGS" ->
                bindgen_prefix \o ndk \o sysroot_suffix
           [] OTHER ->
                clean_path_string(join3(llvm \o bin_suffix,
                                        ndk \o ndk_bin_suffix, current_path))]

\* _setup_environment: every value of env_vars is cleaned and written.
_setup_environment(env) ==
    environ_update(env, [k \in DOMAIN env_vars(env) |->
                            clean_path_string(env_vars(env)[k])])

\* An environment with no variable set.
NoEnv == [k \in {} |-> <<>>]

\* Names of other variables a process may inherit.
OtherNames == {"Path", "path", "JAVA_HOME", "TMPDIR", "OTHER", "MY_Dir_X",
               "ANDROID_NDK_HOME"}

\* The environments a process may inherit: PATH unset, or set to any string,
\* and at most one other variable, set to any shorter string.
Envs ==
    LET path_envs == {NoEnv} \cup {[k \in {"PATH"} |-> str] : str \in Strings}
        other_envs ==
            {NoEnv} \cup {[k \in {name} |-> str] :
                             name \in OtherNames,
                             str \in {v \in Strings : Len(v) < MaxPathLen}}
    IN {environ_update(a, b) : a \in path_envs, b \in other_envs}

-----------------------------------------------------------------------------
VARIABLES
    args,          \* parsed command line: [clean, with_upx, compress_only]
    pc,            \* position of the run
    exist,         \* the paths of ExistPaths that exist on disk, output_dir
                   \* as a directory
    files,         \* what the paths show: path -> content of the regular
                   \* file the path names, symbolic links followed;
                   \* output_dir is among them when a regular file has that
                   \* name
    links,         \* the links on disk: what output_dir is a symbolic link
                   \* to, if it is one, the pairs of binaries that are hard
                   \* links of one file, and the binaries that are symbolic
                   \* links with the name each points to
    calls,         \* the external commands run so far: <<[cmd, rc], ...>>
    missing_deps,  \* the "label: path" lines _check_dependencies printed
    ret,           \* return value of each method called so far
    compress_err,  \* the error compress() reported
    fault,         \* the exception that escaped main(), if any
    exit_code,     \* exit status of the process
    run,           \* number of the current invocation of the script
    prev_clean,    \* the previous invocation was --clean and clean() returned
    report,        \* the sizes and the ratio compress() printed on success
    failure,       \* the last command, when it exited non-zero: what it
                   \* captured and which of it the handler printed
    inherited,     \* the environment the process was started with
    environ,       \* os.environ: variable name -> value
    env_pc         \* position of the startup: import, init, setup, ready

vars == <<args, pc, exist, files, links, calls, missing_deps, ret, compress_err,
          fault, exit_code, run, prev_clean, report, failure, inherited,
          environ, env_pc>>

\* The state of the startup.
startup == <<inherited, environ, env_pc>>

\* compress() has printed no report.
NoReport == [made |-> FALSE, original_size |-> 0, compressed_size |-> 0,
             ratio |-> 0]

\* Whether the captured standard output and standard error are non-empty.
Captures == [stdout : BOOLEAN, stderr : BOOLEAN]

NoCapture == [stdout |-> FALSE, stderr |-> FALSE]

\* The last command did not exit non-zero.
NoFailure == [cmd |-> <<>>, stdout |-> FALSE, stderr |-> FALSE, printed |-> {}]

\* What a CalledProcessError carries: the captured streams of the command.
CapturesOf(rc) == IF rc = "nonzero" THEN Captures ELSE {NoCapture}

\* The streams the except branch of each stage prints when they are non-empty.
\* clean() captures nothing.
handler_prints(stage) ==
    CASE stage = "fmt" -> {"stderr"}
      [] stage = "fix" -> {"stderr"}
      [] stage = "recheck" -> {"stderr"}
      [] stage = "lint" -> {"stderr", "stdout"}
      [] stage = "compile" -> {"stderr"}
      [] stage = "compress" -> {"stderr"}
      [] OTHER -> {}

\* The diagnostics after cmd ran in the given stage with outcome rc.
handled(stage, cmd, rc, cap) ==
    IF rc = "nonzero"
    THEN [cmd |-> cmd, stdout |-> cap.stdout, stderr |-> cap.stderr,
          printed |-> {st \in handler_prints(stage) : cap[st]}]
    ELSE NoFailure

\* Width of the significand of a Python float (IEEE 754 binary64).
MantissaBits == 53

\* Width of the pieces a long bit string is multiplied by.
LimbBits == 20

\* The w low bits of n, most significant first.
fixed_bits(n, w) == [i \in 1..w |-> (n \div 2^(w - i)) % 2]

\* The number of bits of n (below 2^30).
bit_length(n) == CHOOSE w \in 0..30 : n < 2^w /\ (w = 0 \/ n >= 2^(w - 1))

\* A natural number in binary, most significant bit first, no leading zero.
int_bits(n) == fixed_bits(n, bit_length(n))

\* The number a bit string (at most 31 bits) is the binary writing of.
RECURSIVE bits_int(_)
bits_int(bits) ==
    IF Len(bits) = 0 THEN 0
    ELSE IF Len(bits) = 1 THEN bits[1]
    ELSE LET half == Len(bits) \div 2 IN
           bits_int(SubSeq(bits, 1, half)) * 2^(Len(bits) - half)
             + bits_int(SubSeq(bits, half + 1, Len(bits)))

\* The first n bits of the binary fraction r / d (r < d), and what is left
\* of r after them: bit by bit, r is doubled and d taken off when it fits.
RECURSIVE frac_bits(_, _, _)
frac_bits(r, d, n) ==
    IF n = 0 THEN [bits |-> <<>>, rest |-> r]
    ELSE IF n = 1
    THEN LET b == IF 2 * r >= d THEN 1 ELSE 0 IN
           [bits |-> <<b>>, rest |-> 2 * r - b * d]
    ELSE LET first == frac_bits(r, d, n \div 2)
             second == frac_bits(first.rest, d, n - n \div 2) IN
           [bits |-> first.bits \o second.bits, rest |-> second.rest]

\* The number of zeros the binary fraction r / d (0 < r < d) begins with.
lead_zeros(r, d) ==
    CHOOSE z \in 0..30 : /\ r * 2^(z + 1) >= d
                         /\ \A y \in 0..(z - 1) : r * 2^(y + 1) < d

\* bits + 1 in binary.
add_one(bits) ==
    LET zeros == {i \in 1..Len(bits) : bits[i] = 0} IN
      IF zeros = {}
      THEN [i \in 1..(Len(bits) + 1) |-> IF i = 1 THEN 1 ELSE 0]
      ELSE LET last == CHOOSE i \in zeros : \A j \in zeros : j <= i IN
             [i \in 1..Len(bits) |->
                IF i < last THEN bits[i] ELSE IF i = last THEN 1 ELSE 0]

\* bits * k + carry in binary (k at most 100), a limb at a time from the right.
RECURSIVE times_from(_, _, _)
times_from(bits, k, carry) ==
    IF Len(bits) <= LimbBits THEN int_bits(bits_int(bits) * k + carry)
    ELSE LET cut == Len(bits) - LimbBits
             v == bits_int(SubSeq(bits, cut + 1, Len(bits))) * k + carry IN
           times_from(SubSeq(bits, 1, cut), k, v \div 2^LimbBits)
             \o fixed_bits(v % 2^LimbBits, LimbBits)

times(bits, k) == times_from(bits, k, 0)

\* A float: the significand bits (the first is 1) and the exponent of the
\* first bit.  The bits beyond the significand are rounded to nearest, a tie
\* to the even significand; sticky tells that non-zero bits follow the given.
round_float(bits, sticky, exp) ==
    LET kept == SubSeq(bits, 1, MantissaBits)
        guard == IF Len(bits) > MantissaBits THEN bits[MantissaBits + 1] ELSE 0
        tail == sticky \/ \E i \in (MantissaBits + 2)..Len(bits) : bits[i] = 1
        up == guard = 1 /\ (tail \/ kept[MantissaBits] = 1)
        next == add_one(kept) IN
      IF ~up THEN [mant |-> kept, exp |-> exp]
      ELSE IF Len(next) > MantissaBits
           THEN [mant |-> SubSeq(next, 1, MantissaBits), exp |-> exp + 1]
           ELSE [mant |-> next, exp |-> exp]

\* compressed_size / original_size: true division of two positive ints, the
\* float nearest to the quotient.
float_div(c, d) ==
    LET whole == int_bits(c \div d)
        r == c % d IN
      IF whole # <<>>
      THEN LET f == frac_bits(r, d, MantissaBits + 1 - Len(whole)) IN
             round_float(whole \o f.bits, f.rest # 0, Len(whole) - 1)
      ELSE LET z == lead_zeros(r, d)
               f == frac_bits(r * 2^z, d, MantissaBits + 1) IN
             round_float(f.bits, f.rest # 0, 0 - (z + 1))

\* x * 100: the float nearest to the product.
float_times_100(x) ==
    LET product == times(x.mant, 100) IN
      round_float(product, FALSE, x.exp + (Len(product) - MantissaBits))

\* f"{x:.2f}" in hundredths: the integer nearest to x * 100 taken exactly, a
\* tie going to the even one.
format_2f(x) ==
    LET product == times(x.mant, 100)
        n == x.exp + (Len(product) - MantissaBits) + 1
        whole == IF n > 0 THEN bits_int(SubSeq(product, 1, n)) ELSE 0
        guard == IF n >= 0 /\ n < Len(product) THEN product[n + 1] ELSE 0
        tail == \E i \in (n + 2)..Len(product) : i >= 1 /\ product[i] = 1
        up == guard = 1 /\ (tail \/ whole % 2 = 1) IN
      IF up THEN whole + 1 ELSE whole

\* f"{ratio:.2f}" for ratio = (compressed_size / original_size) * 100, in
\* hundredths of a percent.  The sizes are below 2^30 and the ratio below 2^31
\* hundredths.
\* Mutant: the ratio of the original size to the compressed size.
ratio_2f_inverted(compressed_size, original_size) ==
    IF compressed_size = 0 THEN 0
    ELSE format_2f(float_times_100(float_div(original_size, compressed_size)))

ratio_2f(compressed_size, original_size) ==
    IF compressed_size = 0 THEN 0
    ELSE format_2f(float_times_100(float_div(compressed_size, original_size)))

NoRet == [deps |-> "none", build |-> "none", copy |-> "none",
          compress |-> "none", flow |-> "none", clean |-> "none"]

Exists(path) == path \in exist \/ path \in DOMAIN files

\* The binaries that may be names of one another.
FileNames == {source_path, binary_path, compressed_copy}

\* What the path output_dir may be a symbolic link to.
OutputLinks == {"none", "to_dir", "dangling"}

\* Two names that may be hard links of one another.
NamePairs == {pr \in SUBSET FileNames : Cardinality(pr) = 2}

\* The symbolic links there may be among the binaries: name -> name it points
\* to.
SymLinks == UNION {[D -> FileNames] : D \in SUBSET FileNames}

NoSymLinks == [p \in {} |-> source_path]

NoLinks == [output |-> "none", same |-> {}, sym |-> NoSymLinks]

\* The directory entry that holds the file a path names: the path itself, or
\* the name a symbolic link at the path points to.
Real(l, path) == IF path \in DOMAIN l.sym THEN l.sym[path] ELSE path

\* os.path.samefile for two paths that exist: they are names of one file.
SameInode(l, p1, p2) ==
    \/ Real(l, p1) = Real(l, p2)
    \/ {Real(l, p1), Real(l, p2)} \in l.same

\* The regular files by their own names: what the paths show (files) without
\* the symbolic links.
Entries(f, l) == [p \in DOMAIN f \ DOMAIN l.sym |-> f[p]]

\* What every path shows (open, os.path.exists, os.path.getsize follow
\* symbolic links): a regular file g shows its content, a symbolic link the
\* content of the file it points to, and it shows nothing when that is absent.
Shown(g, l) ==
    [p \in DOMAIN g \cup {q \in DOMAIN l.sym : l.sym[q] \in DOMAIN g} |->
        g[Real(l, p)]]

\* The directory entries at paths are removed or replaced by new files: they
\* are no symbolic links and hard links of no other file any more.  A
\* symbolic link that points to one of them stays.
Unlink(l, paths) ==
    [output |-> l.output,
     same |-> {pr \in l.same : pr \cap paths = {}},
     sym |-> [p \in DOMAIN l.sym \ paths |-> l.sym[p]]]

\* The links that can be: a symbolic link points to another name that is no
\* symbolic link, hard links are no symbolic links, and being hard links of
\* one file is transitive.
LinkShapes ==
    {l \in [output : OutputLinks, same : SUBSET NamePairs, sym : SymLinks] :
        /\ \A p \in DOMAIN l.sym :
             l.sym[p] \in FileNames \ ({p} \cup DOMAIN l.sym)
        /\ \A pr \in l.same : pr \cap DOMAIN l.sym = {}
        /\ \A p1 \in FileNames, p2 \in FileNames, p3 \in FileNames :
             ({p1, p2} \in l.same /\ {p2, p3} \in l.same /\ p1 # p3)
                => {p1, p3} \in l.same}

\* The filesystem is well formed: a file of the output directory exists only
\* if the directory does; output_dir is one thing at most (a directory, a link
\* to one, a regular file, a link to nothing); a symbolic link points to
\* another name that is no symbolic link and shows what that name shows; two
\* hard links of one file exist, hold the same content, and being hard links
\* of one file is transitive.
WellFormed(e, f, l) ==
    /\ (DOMAIN f \cap OutputFiles # {}) => output_dir \in e
    /\ (DOMAIN l.sym \cap OutputFiles # {}) => output_dir \in e
    /\ ~(output_dir \in e /\ output_dir \in DOMAIN f)
    /\ l.output # "none" => output_dir \notin DOMAIN f
    /\ l.output = "to_dir" => output_dir \in e
    /\ l.output = "dangling" => output_dir \notin e
    /\ \A p \in DOMAIN l.sym :
         /\ l.sym[p] \in FileNames \ ({p} \cup DOMAIN l.sym)
         /\ (p \in DOMAIN f) <=> (l.sym[p] \in DOMAIN f)
         /\ (p \in DOMAIN f) => f[p] = f[l.sym[p]]
    /\ \A pr \in l.same :
         /\ pr \subseteq DOMAIN f \ DOMAIN l.sym
         /\ \A p1 \in pr, p2 \in pr : f[p1] = f[p2]
    /\ \A p1 \in FileNames, p2 \in FileNames, p3 \in FileNames :
         ({p1, p2} \in l.same /\ {p2, p3} \in l.same /\ p1 # p3)
            => {p1, p3} \in l.same

\* The state of a run once the builder is constructed, for a process that
\* inherited no PATH.
Init ==
    /\ inherited = NoEnv
    /\ environ = _setup_environment(NoEnv)
    /\ env_pc = "ready"
    /\ links \in LinkShapes
    /\ exist \in SUBSET ExistPaths
    /\ \E D \in SUBSET FilePaths : files \in [D -> Contents]
    /\ WellFormed(exist, files, links)
    /\ args \in [clean : BOOLEAN, with_upx : BOOLEAN, compress_only : BOOLEAN]
    /\ pc = "main"
    /\ calls = <<>>
    /\ missing_deps = <<>>
    /\ ret = NoRet
    /\ compress_err = "none"
    /\ fault = "none"
    /\ exit_code = 0
    /\ run = 1
    /\ prev_clean = FALSE
    /\ report = NoReport
    /\ failure = NoFailure

-----------------------------------------------------------------------------
(* main(): dispatch on the flags, --clean first, then --compress-only; both *)
(* build flows start with build(), whose first step is the dependency check *)

main_dispatch(a) ==
    IF a.clean THEN "clean"
    ELSE IF a.compress_only THEN "compress"
    ELSE "deps"

Main ==
    /\ pc = "main"
    /\ env_pc = "ready"
    /\ pc' = main_dispatch(args)
    /\ UNCHANGED <<args, exist, files, links, calls, missing_deps, ret, compress_err,
                   fault, exit_code, run, prev_clean, report, failure, startup>>

-----------------------------------------------------------------------------
(* _check_dependencies *)

\* Mutant: the compression tool is not among the dependencies.
dependencies_without_upx == << <<android_ndk_home, "Android NDK">>,
                               <<llvm_path, "LLVM">> >>

dependencies == << <<android_ndk_home, "Android NDK">>,
                   <<llvm_path, "LLVM">>,
                   <<upx_path, "UPX">> >>

IsMissing(e, dep) == dep[1] \notin e

\* Mutant: fail-fast, only the first missing dependency is collected.
check_missing_first_only(e) ==
    LET all == SelectSeq(dependencies, LAMBDA dep : IsMissing(e, dep)) IN
      IF all = <<>> THEN <<>> ELSE <<Head(all)>>

\* The list missing_deps: one entry per dependency whose path does not exist,
\* in the order of the dependencies.
check_missing(e) == SelectSeq(dependencies, LAMBDA dep : IsMissing(e, dep))

\* The return value of _check_dependencies.
_check_dependencies(e) == check_missing(e) = <<>>

\* Mutant: the result of the dependency check is ignored.
deps_next_ignored(ok) == IF ok THEN "fmt" ELSE "fmt"

\* build() after the dependency check: go on to the format check, or return
\* False.
deps_next(ok) == IF ok THEN "fmt" ELSE "return_false"

\* Mutant: the flow does not look at the result of build() and goes on to
\* copy_binary().
BuildReturnsFalse_flow_goes_on ==
    /\ ret' = [ret EXCEPT !.build = "false"]
    /\ pc' = "copy"
    /\ UNCHANGED <<fault, exit_code>>

\* build() returned False: the flow returns False and main() calls sys.exit(1).
BuildReturnsFalse ==
    /\ ret' = [ret EXCEPT !.build = "false", !.flow = "false"]
    /\ exit_code' = 1
    /\ pc' = "done"
    /\ UNCHANGED fault

\* An exception left build(): nothing on the way up to main() catches it.
BuildRaises(exc) ==
    /\ ret' = [ret EXCEPT !.build = "raised", !.flow = "raised"]
    /\ fault' = exc
    /\ exit_code' = 1
    /\ pc' = "done"

CheckDeps ==
    /\ pc = "deps"
    /\ missing_deps' = check_missing(exist)
    /\ LET ok == _check_dependencies(exist)
           n == deps_next(ok) IN
         IF n = "return_false"
         THEN /\ ret' = [ret EXCEPT !.deps = IF ok THEN "true" ELSE "false",
                                    !.build = "false", !.flow = "false"]
              /\ exit_code' = 1
              /\ pc' = "done"
         ELSE /\ ret' = [ret EXCEPT !.deps = IF ok THEN "true" ELSE "false"]
              /\ pc' = n
              /\ UNCHANGED exit_code
    /\ UNCHANGED <<args, exist, files, links, calls, compress_err, fault, run,
                   prev_clean, report, failure, startup>>

-----------------------------------------------------------------------------
(* build(): format check, auto-format, recheck, lint, compile.  Each stage  *)
(* runs one external command; only CalledProcessError is caught.            *)

fmt_check_next(rc) ==
    CASE rc = "ok" -> "lint"
      [] rc = "nonzero" -> "fix"
      [] OTHER -> "raise"

\* Mutant: a failed auto-format still goes on to the recheck.
fmt_fix_next_goes_on(rc) ==
    CASE rc = "ok" -> "recheck"
      [] rc = "nonzero" -> "recheck"
      [] OTHER -> "raise"

fmt_fix_next(rc) ==
    CASE rc = "ok" -> "recheck"
      [] rc = "nonzero" -> "return_false"
      [] OTHER -> "raise"

\* Mutant: the outcome of the recheck is not looked at (a non-zero exit goes on
\* to the lint stage).
recheck_next_unchecked(rc) ==
    CASE rc = "ok" -> "lint"
      [] rc = "nonzero" -> "lint"
      [] OTHER -> "raise"

\* Mutant: the return False of the remediation path is reached also when the
\* recheck passed.
recheck_next_always_halts(rc) ==
    CASE rc = "ok" -> "return_false"
      [] rc = "nonzero" -> "return_false"
      [] OTHER -> "raise"

recheck_next(rc) ==
    CASE rc = "ok" -> "lint"
      [] rc = "nonzero" -> "return_false"
      [] OTHER -> "raise"

\* Mutant: a failed lint still goes on to the compile stage.
clippy_next_goes_on(rc) ==
    CASE rc = "ok" -> "compile"
      [] rc = "nonzero" -> "compile"
      [] OTHER -> "raise"

clippy_next(rc) ==
    CASE rc = "ok" -> "compile"
      [] rc = "nonzero" -> "return_false"
      [] OTHER -> "raise"

build_next(rc) ==
    CASE rc = "ok" -> "return_true"
      [] rc = "nonzero" -> "return_false"
      [] OTHER -> "raise"

\* The rest of a stage of build(): cmd has run with outcome rc, and build()
\* goes where the stage's handler leads.
BuildStage(stage, cmd, rc, cap, n) ==
    /\ calls' = Append(calls, [cmd |-> cmd, rc |-> rc])
    /\ failure' = handled(stage, cmd, rc, cap)
    /\ CASE n = "return_false" -> BuildReturnsFalse
         [] n = "raise" -> BuildRaises("OSError")
         [] OTHER -> pc' = n /\ UNCHANGED <<ret, fault, exit_code>>
    /\ UNCHANGED <<args, exist, files, links, missing_deps, compress_err, run,
                   prev_clean, report, startup>>

FmtCheck ==
    /\ pc = "fmt"
    /\ \E rc \in RunOutcomes :
         \E cap \in CapturesOf(rc) :
           BuildStage("fmt", fmt_cmd, rc, cap, fmt_check_next(rc))

FmtFix ==
    /\ pc = "fix"
    /\ \E rc \in RunOutcomes :
         \E cap \in CapturesOf(rc) :
           BuildStage("fix", fmt_fix_cmd, rc, cap, fmt_fix_next(rc))

FmtRecheck ==
    /\ pc = "recheck"
    /\ \E rc \in RunOutcomes :
         \E cap \in CapturesOf(rc) :
           BuildStage("recheck", fmt_cmd, rc, cap, recheck_next(rc))

Lint ==
    /\ pc = "lint"
    /\ \E rc \in RunOutcomes :
         \E cap \in CapturesOf(rc) :
           BuildStage("lint", clippy_cmd, rc, cap, clippy_next(rc))

Remove(f, paths) == [p \in DOMAIN f \ paths |-> f[p]]

Put(f, path, c) == [p \in DOMAIN f \cup {path} |-> IF p = path THEN c ELSE f[p]]

\* The filesystem as it is.
Kept(f, l) == [files |-> f, links |-> l]

\* An external tool puts a new file of content c at path (cargo and upx write
\* a new file and give it the name): the hard links of the old file keep it,
\* the symbolic links to path show the new one.
Replaced(f, l, path, c) ==
    LET after == Unlink(l, {path}) IN
      [files |-> Shown(Put(Entries(f, l), path, c), after), links |-> after]

\* The directory entries at paths are removed: the hard links of the files
\* keep them, the symbolic links to paths point to nothing.
Removed(f, l, paths) ==
    LET after == Unlink(l, paths) IN
      [files |-> Shown(Remove(Entries(f, l), paths), after), links |-> after]

\* What the release build leaves at source_path: a build that ran, whether it
\* exits 0 or not, may have written the binary (any content) or left the path
\* as it was; nothing changes when cargo could not be launched.
cargo_build_effect(f, l, rc) ==
    IF rc \in {"ok", "nonzero"}
    THEN {Kept(f, l)} \cup {Replaced(f, l, source_path, c) : c \in Contents}
    ELSE {Kept(f, l)}

Compile ==
    /\ pc = "compile"
    /\ \E rc \in RunOutcomes :
         /\ calls' = Append(calls, [cmd |-> build_cmd, rc |-> rc])
         /\ \E cap \in CapturesOf(rc) :
              failure' = handled("compile", build_cmd, rc, cap)
         /\ \E built \in cargo_build_effect(files, links, rc) :
              /\ files' = built.files
              /\ links' = built.links
         /\ LET n == build_next(rc) IN
              CASE n = "return_false" -> BuildReturnsFalse
                [] n = "raise" -> BuildRaises("OSError")
                [] OTHER -> /\ ret' = [ret EXCEPT !.build = "true"]
                            /\ pc' = "copy"
                            /\ UNCHANGED <<fault, exit_code>>
    /\ UNCHANGED <<args, exist, missing_deps, compress_err, run, prev_clean,
                   report, startup>>

-----------------------------------------------------------------------------
(* copy_binary *)

\* How shutil.copy2(src, dst) may end.  It begins with the test that src and
\* dst are not names of one file: SameFileError, an OSError, when they are.
\* Then dst is opened for writing: when it is a symbolic link to the absent
\* compiled binary, the file is created there, or FileNotFoundError is raised
\* if target/aarch64-linux-android/release is no directory.
copy2_check(f, l, src, dst) ==
    IF dst \in DOMAIN f /\ SameInode(l, src, dst) THEN {"SameFileError"}
    ELSE IF dst \notin DOMAIN f /\ dst \in DOMAIN l.sym
            /\ l.sym[dst] = source_path
    THEN {"ok", "FileNotFoundError"}
    ELSE {"ok"}

\* shutil.copy2(src, dst): the file dst names (the file a symbolic link at
\* dst points to), created if absent, is written with the content of src;
\* every hard link of that file and every symbolic link to one shows it.
copy2(f, l, src, dst) ==
    LET g == Entries(f, l)
        real == Real(l, dst) IN
      Shown([p \in DOMAIN g \cup {real} |->
                IF p = real \/ {p, real} \in l.same THEN f[src] ELSE g[p]], l)

\* The flow after a successful copy: build_and_compress goes on to compress(),
\* build_only_flow returns True.
copy_next(a) == IF a.with_upx THEN "compress" ELSE "return_true"

\* os.makedirs(output_dir, exist_ok=True): the directory is created if absent;
\* FileExistsError when the path is a regular file or a link to nothing.
makedirs(f, l) ==
    IF output_dir \in DOMAIN f \/ l.output = "dangling"
    THEN "FileExistsError"
    ELSE "ok"

CopyBinary ==
    /\ pc = "copy"
    /\ IF ~Exists(source_path)
       THEN /\ ret' = [ret EXCEPT !.copy = "false", !.flow = "false"]
            /\ exit_code' = 1
            /\ pc' = "done"
            /\ UNCHANGED <<exist, files, links, fault>>
       ELSE IF makedirs(files, links) # "ok"
       THEN /\ ret' = [ret EXCEPT !.copy = "raised", !.flow = "raised"]
            /\ fault' = "OSError"
            /\ exit_code' = 1
            /\ pc' = "done"
            /\ UNCHANGED <<exist, files, links>>
       ELSE IF copy2_check(files, links, source_path, binary_path) # {"ok"}
       THEN /\ ret' = [ret EXCEPT !.copy = "raised", !.flow = "raised"]
            /\ fault' = "OSError"
            /\ exit_code' = 1
            /\ pc' = "done"
            /\ exist' = exist \cup {output_dir}
            /\ UNCHANGED <<files, links>>
       ELSE /\ exist' = exist \cup {output_dir}
            /\ files' = copy2(files, links, source_path, binary_path)
            /\ UNCHANGED <<fault, links>>
            /\ IF copy_next(args) = "compress"
               THEN /\ ret' = [ret EXCEPT !.copy = "true"]
                    /\ pc' = "compress"
                    /\ UNCHANGED exit_code
               ELSE /\ ret' = [ret EXCEPT !.copy = "true", !.flow = "true"]
                    /\ exit_code' = 0
                    /\ pc' = "done"
    /\ UNCHANGED <<args, calls, missing_deps, compress_err, run,
                   prev_clean, report, failure, startup>>

-----------------------------------------------------------------------------
(* compress *)

\* Mutant: the two checks in the other order.
compress_precheck_swapped(e, f) ==
    IF upx_path \notin e THEN "ToolMissing"
    ELSE IF binary_path \notin DOMAIN f THEN "ArtifactMissing"
    ELSE "ok"

\* The two early returns of compress(), in the order of the code.
compress_precheck(e, f) ==
    IF binary_path \notin DOMAIN f THEN "ArtifactMissing"
    ELSE IF upx_path \notin e THEN "ToolMissing"
    ELSE "ok"

\* Mutant: the compressor is run against the original artifact.
compress_target_original == binary_path

\* The file the compressor is run against.
compress_target == compressed_copy

upx_cmd == <<upx_path, "--lzma", compress_target>>

\* What the compressor leaves at the path t it was run against: once it ran,
\* whatever its exit status, a file of any content (the one it found
\* included) or no file; the file as it was when it could not be launched.
upx_effect(f, l, t, rc) ==
    IF rc \in {"ok", "nonzero"}
    THEN {Kept(f, l), Removed(f, l, {t})}
           \cup {Replaced(f, l, t, c) : c \in Contents}
    ELSE {Kept(f, l)}

\* The except branch: the duplicate is removed if it exists (a symbolic link
\* to nothing does not exist and stays).
compress_cleanup(f, l) ==
    IF compressed_copy \in DOMAIN f
    THEN Removed(f, l, {compressed_copy})
    ELSE Kept(f, l)

\* How compress() ends once the compressor has run: on success the size of
\* the duplicate is read (os.path.getsize raises FileNotFoundError, an OSError,
\* when it is gone), then the ratio compressed_size / original_size is computed.
compress_result(rc, original_size, f) ==
    CASE rc = "ok" -> IF compressed_copy \notin DOMAIN f THEN "OSError"
                      ELSE IF original_size = 0 THEN "ZeroDivisionError"
                      ELSE "true"
      [] rc = "nonzero" -> "false"
      [] OTHER -> "OSError"

\* Exit status of main() under --compress-only.
compress_only_exit(cret) == IF cret = "true" THEN 0 ELSE 1

\* Return value of build_and_compress() once compress() has returned.
build_and_compress_ret(cret) == IF cret = "true" THEN "true" ELSE "true"

\* compress() returned cret ("true" or "false") to its caller.
CompressReturns(cret) ==
    /\ fault' = fault
    /\ IF args.compress_only
       THEN /\ ret' = [ret EXCEPT !.compress = cret]
            /\ exit_code' = compress_only_exit(cret)
       ELSE /\ ret' = [ret EXCEPT !.compress = cret,
                                  !.flow = build_and_compress_ret(cret)]
            /\ exit_code' = IF build_and_compress_ret(cret) = "true" THEN 0 ELSE 1

\* An exception left compress(): neither flow nor main() catches it.
CompressRaises(exc) ==
    /\ fault' = exc
    /\ exit_code' = 1
    /\ ret' = IF args.compress_only
              THEN [ret EXCEPT !.compress = "raised"]
              ELSE [ret EXCEPT !.compress = "raised", !.flow = "raised"]

Compress ==
    /\ pc = "compress"
    /\ pc' = "done"
    /\ LET pre == compress_precheck(exist, files) IN
         IF pre # "ok"
         THEN /\ compress_err' = pre
              /\ CompressReturns("false")
              /\ UNCHANGED <<files, links, calls, report, failure>>
         ELSE \E copied_as \in
                   copy2_check(files, links, binary_path, compressed_copy) :
         IF copied_as # "ok"
         THEN /\ compress_err' = "none"
              /\ CompressRaises("OSError")
              /\ UNCHANGED <<files, links, calls, report, failure>>
         ELSE \E rc \in RunOutcomes :
                LET original_size == Len(files[binary_path])
                    copied == copy2(files, links, binary_path, compressed_copy)
                IN
                  \E after \in upx_effect(copied, links, compress_target, rc) :
                    LET ran == after.files
                        res == compress_result(rc, original_size, ran) IN
                      /\ calls' = Append(calls, [cmd |-> upx_cmd, rc |-> rc])
                      /\ \E cap \in CapturesOf(rc) :
                           failure' = handled("compress", upx_cmd, rc, cap)
                      /\ report' =
                           IF res = "true"
                           THEN [made |-> TRUE,
                                 original_size |-> original_size,
                                 compressed_size |-> Len(ran[compressed_copy]),
                                 ratio |-> ratio_2f(Len(ran[compressed_copy]),
                                                    original_size)]
                           ELSE report
                      /\ CASE res = "true" ->
                                /\ files' = ran
                                /\ links' = after.links
                                /\ compress_err' = "none"
                                /\ CompressReturns("true")
                           [] res = "false" ->
                                /\ files' = compress_cleanup(ran, after.links).files
                                /\ links' = compress_cleanup(ran, after.links).links
                                /\ compress_err' = "CompressionFailed"
                                /\ CompressReturns("false")
                           [] OTHER ->
                                /\ files' = ran
                                /\ links' = after.links
                                /\ compress_err' = "none"
                                /\ CompressRaises(res)
    /\ UNCHANGED <<args, exist, missing_deps, run, prev_clean, startup>>

-----------------------------------------------------------------------------
(* clean *)

\* What "cargo clean" leaves of target/: a run, whether it exits 0 or not, has
\* removed the binary or left it (cargo cleans its own target directory, which
\* the inherited environment or the cargo configuration may place elsewhere);
\* nothing changes when cargo could not be launched.
cargo_clean_effect(f, l, rc) ==
    IF rc \in {"ok", "nonzero"}
    THEN {Kept(f, l), Removed(f, l, {source_path})}
    ELSE {Kept(f, l)}

\* shutil.rmtree(output_dir), called when the path exists: NotADirectoryError
\* when it is a regular file, OSError ("Cannot call rmtree on a symbolic
\* link") when it is a link to a directory.
rmtree(f, l) ==
    IF output_dir \in DOMAIN f THEN "NotADirectoryError"
    ELSE IF l.output = "to_dir" THEN "OSError"
    ELSE "ok"

clean_next(rc) == IF rc \in {"ok", "nonzero"} THEN "rmtree" ELSE "raise"

Clean ==
    /\ pc = "clean"
    /\ pc' = "done"
    /\ \E rc \in RunOutcomes :
         \E cleaned \in cargo_clean_effect(files, links, rc) :
           /\ calls' = Append(calls, [cmd |-> clean_cmd, rc |-> rc])
           /\ failure' = handled("clean", clean_cmd, rc, NoCapture)
           /\ IF clean_next(rc) = "raise"
              THEN /\ files' = cleaned.files
                   /\ links' = cleaned.links
                   /\ ret' = [ret EXCEPT !.clean = "raised"]
                   /\ fault' = "OSError"
                   /\ exit_code' = 1
                   /\ UNCHANGED exist
              ELSE IF Exists(output_dir) /\ rmtree(files, links) # "ok"
              THEN /\ files' = cleaned.files
                   /\ links' = cleaned.links
                   /\ ret' = [ret EXCEPT !.clean = "raised"]
                   /\ fault' = "OSError"
                   /\ exit_code' = 1
                   /\ UNCHANGED exist
              ELSE /\ IF Exists(output_dir)
                      THEN /\ exist' = exist \ {output_dir}
                           /\ files' =
                                Removed(cleaned.files, cleaned.links,
                                        OutputFiles).files
                           /\ links' =
                                Removed(cleaned.files, cleaned.links,
                                        OutputFiles).links
                      ELSE /\ files' = cleaned.files
                           /\ links' = cleaned.links
                           /\ UNCHANGED exist
                   /\ ret' = [ret EXCEPT !.clean = "returned"]
                   /\ exit_code' = 0
                   /\ UNCHANGED fault
    /\ UNCHANGED <<args, missing_deps, compress_err, run, prev_clean, report,
                   startup>>

-----------------------------------------------------------------------------
(* The script is run again on the filesystem the previous run left. *)

Invoke ==
    /\ pc = "done"
    /\ run < MaxRuns
    /\ run' = run + 1
    /\ prev_clean' = (args.clean /\ ret.clean = "returned")
    /\ report' = NoReport
    /\ failure' = NoFailure
    /\ args' \in [clean : BOOLEAN, with_upx : BOOLEAN, compress_only : BOOLEAN]
    /\ pc' = "main"
    /\ calls' = <<>>
    /\ missing_deps' = <<>>
    /\ ret' = NoRet
    /\ compress_err' = "none"
    /\ fault' = "none"
    /\ exit_code' = 0
    /\ UNCHANGED <<exist, files, links, startup>>

-----------------------------------------------------------------------------
(* Startup of the process: the import of the module runs                    *)
(* _clean_path_environment, then GPUGovernorBuilder.__init__ runs           *)
(* _clean_system_path and _setup_environment.                               *)

RunUnchanged ==
    UNCHANGED <<args, pc, exist, files, links, calls, missing_deps, ret, compress_err,
                fault, exit_code, run, prev_clean, report, failure>>

InitEnv ==
    /\ inherited \in Envs
    /\ environ = inherited
    /\ env_pc = "import"
    /\ args = [clean |-> FALSE, with_upx |-> FALSE, compress_only |-> FALSE]
    /\ pc = "main"
    /\ exist = {}
    /\ files = [p \in {} |-> <<>>]
    /\ links = NoLinks
    /\ calls = <<>>
    /\ missing_deps = <<>>
    /\ ret = NoRet
    /\ compress_err = "none"
    /\ fault = "none"
    /\ exit_code = 0
    /\ run = 1
    /\ prev_clean = FALSE
    /\ report = NoReport
    /\ failure = NoFailure

CleanPathEnvironment ==
    /\ env_pc = "import"
    /\ environ' = _clean_path_environment(environ)
    /\ env_pc' = "init"
    /\ UNCHANGED inherited
    /\ RunUnchanged

CleanSystemPath ==
    /\ env_pc = "init"
    /\ environ' = _clean_system_path(environ)
    /\ env_pc' = "setup"
    /\ UNCHANGED inherited
    /\ RunUnchanged

SetupEnvironment ==
    /\ env_pc = "setup"
    /\ environ' = _setup_environment(environ)
    /\ env_pc' = "ready"
    /\ UNCHANGED inherited
    /\ RunUnchanged

NextEnv ==
    \/ CleanPathEnvironment
    \/ CleanSystemPath
    \/ SetupEnvironment

SpecEnv == InitEnv /\ [][NextEnv]_vars

-----------------------------------------------------------------------------
Next ==
    \/ Main
    \/ CheckDeps
    \/ FmtCheck
    \/ FmtFix
    \/ FmtRecheck
    \/ Lint
    \/ Compile
    \/ CopyBinary
    \/ Compress
    \/ Clean
    \/ Invoke

Spec == Init /\ [][Next]_vars

TypeOK ==
    /\ pc \in {"main", "deps", "fmt", "fix", "recheck", "lint", "compile",
               "copy", "compress", "clean", "done"}
    /\ exist \subseteq ExistPaths
    /\ DOMAIN files \subseteq FilePaths
    /\ links.output \in OutputLinks
    /\ links \in LinkShapes
    /\ WellFormed(exist, files, links)
    /\ exit_code \in {0, 1}
    /\ fault \in {"none", "OSError", "ZeroDivisionError"}
    /\ run \in 1..MaxRuns
    /\ prev_clean \in BOOLEAN

-----------------------------------------------------------------------------
(* Properties of the build pipeline *)

IsCall(i, cmd, rc) == i <= Len(calls) /\ calls[i] = [cmd |-> cmd, rc |-> rc]

\* The run began: format check exited non-zero, auto-format succeeded.
FormatRemediated == IsCall(1, fmt_cmd, "nonzero") /\ IsCall(2, fmt_fix_cmd, "ok")

RecheckFailed ==
    /\ FormatRemediated
    /\ Len(calls) >= 3
    /\ calls[3].cmd = fmt_cmd
    /\ calls[3].rc # "ok"

RecheckPassed == FormatRemediated /\ IsCall(3, fmt_cmd, "ok")

Invoked(cmd) == \E i \in 1..Len(calls) : calls[i].cmd = cmd

\* C1: when the format check fails, the auto-format succeeds and the recheck
\* fails, build() has ended without success (it returned False when the
\* recheck exited non-zero), the process exits non-zero, and neither the lint
\* nor the compile command has been invoked.
C1_RecheckFailureHalts ==
    RecheckFailed =>
        /\ pc = "done"
        /\ ret.build \in {"false", "raised"}
        /\ (calls[3].rc = "nonzero" => ret.build = "false")
        /\ exit_code = 1
        /\ ~Invoked(clippy_cmd)
        /\ ~Invoked(build_cmd)
        /\ Len(calls) = 3

C1_Witness ==
    /\ RecheckFailed
    /\ calls[3].rc = "nonzero"
    /\ ret.build = "false"
    /\ pc = "done"

\* C2: when the format check fails, the auto-format succeeds and the recheck
\* succeeds, build() has not halted: it stands before the lint stage, and the
\* next external command invoked is the lint command.
C2_RecheckSuccessProceedsToLint ==
    RecheckPassed =>
        IF Len(calls) = 3
        THEN pc = "lint" /\ ret.build = "none" /\ ENABLED Lint
        ELSE calls[4].cmd = clippy_cmd

C2_Witness == RecheckPassed /\ Len(calls) >= 4 /\ calls[4].cmd = clippy_cmd

-----------------------------------------------------------------------------
(* Properties of compress() *)

SameFile(path) ==
    /\ (path \in DOMAIN files') <=> (path \in DOMAIN files)
    /\ (path \in DOMAIN files) => files'[path] = files[path]

NewCalls == {calls'[i] : i \in (Len(calls) + 1)..Len(calls')}

\* C3: a step of compress(), whatever the outcome of the compressor and on
\* every early return, leaves the original artifact as it was, and the only
\* command it runs is the compressor against the duplicate.
C3_CompressKeepsOriginal ==
    [][pc = "compress" =>
         /\ SameFile(binary_path)
         /\ \A c \in NewCalls : c.cmd = <<upx_path, "--lzma", compressed_copy>>]_vars

C3_Witness ==
    /\ pc = "done"
    /\ ret.compress = "false"
    /\ Invoked(<<upx_path, "--lzma", compressed_copy>>)
    /\ binary_path \in DOMAIN files
    /\ Len(files[binary_path]) > 0

\* compress() went past its early returns and produced the duplicate.
CompressorWasRun == \E i \in 1..Len(calls) : calls[i].cmd[1] = upx_path

\* C4: whenever a compression that produced the duplicate ends in failure,
\* the duplicate does not exist afterwards.
C4_FailedCompressionLeavesNoDuplicate ==
    (pc = "done" /\ CompressorWasRun /\ ret.compress \in {"false", "raised"})
        => compressed_copy \notin DOMAIN files

\* The output directory is one that rmtree can remove: neither a regular
\* file nor a symbolic link has its name.
OutputRemovable == rmtree(files, links) = "ok"

\* C5: no failure of an external command escapes as an unhandled fault: when
\* the last command run did not succeed, no exception has left main() and the
\* method that ran it has returned a result (the output directory being one
\* that rmtree can remove).
C5_ExternalFailuresCaptured ==
    (calls # <<>> /\ calls[Len(calls)].rc # "ok" /\ OutputRemovable) =>
        /\ fault = "none"
        /\ "raised" \notin {ret.build, ret.compress, ret.clean}

-----------------------------------------------------------------------------
(* Properties of the dependency check *)

RequiredPaths == {android_ndk_home, llvm_path, upx_path}

LabelOf(path) ==
    CASE path = android_ndk_home -> "Android NDK"
      [] path = llvm_path -> "LLVM"
      [] path = upx_path -> "UPX"

Reported(seq) == {seq[i] : i \in 1..Len(seq)}

\* C6: the dependency check returns false exactly when a required path is
\* absent and true exactly when all exist; it reports every absent path with
\* its label and no other; it leaves the filesystem as it was.
C6_CheckDependenciesReportsAll ==
    [][pc = "deps" =>
         LET absent == {path \in RequiredPaths : ~Exists(path)} IN
           /\ (ret'.deps = "false") <=> (absent # {})
           /\ (ret'.deps = "true") <=> (absent = {})
           /\ Reported(missing_deps') = {<<path, LabelOf(path)>> : path \in absent}
           /\ Len(missing_deps') = Cardinality(absent)
           /\ exist' = exist
           /\ files' = files
           /\ links' = links]_vars

C6_Witness ==
    /\ ret.deps = "false"
    /\ Len(missing_deps) >= 2
    /\ Cardinality({path \in RequiredPaths : ~Exists(path)}) = Len(missing_deps)

\* C7: when the dependency check fails, build() has returned False at once:
\* the run is over with a non-zero exit, no external command was invoked.
C7_MissingDependencyHalts ==
    ret.deps = "false" =>
        /\ pc = "done"
        /\ ret.build = "false"
        /\ ret.flow = "false"
        /\ exit_code = 1
        /\ calls = <<>>

C7_Witness == ret.deps = "false" /\ pc = "done" /\ ~args.clean /\ ~args.compress_only

-----------------------------------------------------------------------------
(* Properties of the command-line modes *)

CompressOnlyMode == ~args.clean /\ args.compress_only

WithUpxMode == ~args.clean /\ ~args.compress_only /\ args.with_upx

DefaultMode == ~args.clean /\ ~args.compress_only /\ ~args.with_upx

\* C8: under --compress-only, a missing artifact gives ArtifactMissing and a
\* present artifact with a missing compressor gives ToolMissing; in both cases
\* the exit status is non-zero, no command is run and no file changes.
C8_CompressOnlyEarlyErrors ==
    [][(pc = "compress" /\ CompressOnlyMode) =>
         /\ ~Exists(binary_path) =>
              /\ compress_err' = "ArtifactMissing"
              /\ ret'.compress = "false"
              /\ exit_code' = 1
              /\ calls' = calls
              /\ files' = files
              /\ links' = links
         /\ (Exists(binary_path) /\ ~Exists(upx_path)) =>
              /\ compress_err' = "ToolMissing"
              /\ ret'.compress = "false"
              /\ exit_code' = 1
              /\ calls' = calls
              /\ files' = files
              /\ links' = links]_vars

C8_Witness ==
    /\ pc = "done"
    /\ CompressOnlyMode
    /\ compress_err = "ToolMissing"
    /\ Exists(binary_path)
    /\ exit_code = 1

\* C9: under --with-upx, when build and copy succeeded and the compression
\* step failed, for any reason, the flow returned True and the exit status is 0.
C9_CompressFailureStillSuccess ==
    (/\ pc = "done"
     /\ WithUpxMode
     /\ ret.build = "true"
     /\ ret.copy = "true"
     /\ ret.compress \in {"false", "raised"})
        => (ret.flow = "true" /\ exit_code = 0)

\* C10: the exit status is 0 when the requested action succeeded and non-zero
\* when its terminal step failed: a failed build or a failed compress-only
\* gives non-zero, a successful build plus copy gives 0.
C10_ExitCodes ==
    (pc = "done" /\ ~args.clean) =>
        /\ CompressOnlyMode => ((exit_code = 0) <=> (ret.compress = "true"))
        /\ ~CompressOnlyMode =>
              /\ ret.build # "true" => exit_code # 0
              /\ (ret.build = "true" /\ ret.copy = "true") => exit_code = 0

-----------------------------------------------------------------------------
(* Properties of clean() *)

OutputDirAbsent == ~Exists(output_dir) /\ DOMAIN files \cap OutputFiles = {}

\* C11: --clean never gives a non-zero exit: whatever the outcome of the clean
\* command, clean() returns, the output directory is gone and the exit
\* status is 0.
C11_CleanAlwaysExitsZero ==
    (pc = "done" /\ args.clean) =>
        /\ exit_code = 0
        /\ ret.clean = "returned"
        /\ OutputDirAbsent

\* C12: clean() is idempotent: a clean() that directly follows a clean()
\* produces no error and leaves the output directory absent, as the first did.
C12_CleanIdempotent ==
    (pc = "done" /\ args.clean /\ prev_clean) =>
        /\ ret.clean = "returned"
        /\ fault = "none"
        /\ exit_code = 0
        /\ OutputDirAbsent

-----------------------------------------------------------------------------
(* Properties of the environment setup *)

WrittenKeys == {"ANDROID_NDK_HOME", "LLVM_PATH",
                "CARGO_TARGET_AARCH64_LINUX_ANDROID_LINKER", "LIBCLANG_PATH",
                "BINDGEN_EXTRA_CLANG_ARGS", "PATH"}

HasQuote(str) == \E i \in 1..Len(str) : str[i] \in QuoteChars

\* C13: whatever PATH the process inherited, once _setup_environment has run
\* every variable it writes is set and holds no quote character.
C13_EnvironmentHasNoQuotes ==
    env_pc = "ready" =>
        \A k \in WrittenKeys : k \in DOMAIN environ /\ ~HasQuote(environ[k])

C13_Witness ==
    /\ env_pc = "ready"
    /\ "PATH" \in DOMAIN inherited
    /\ Contains(inherited["PATH"], "\"")
    /\ Contains(inherited["PATH"], "'")
    /\ Contains(environ["PATH"], "a")

-----------------------------------------------------------------------------
(* Properties of copy_binary() *)

\* C14: when the compiled binary exists, copy_binary() succeeds from any
\* prior state of the output directory (absent, empty, an older artifact, a
\* duplicate): afterwards the directory exists and the artifact has exactly
\* the content of the compiled binary, which is left as it was.
C14_CopyBinaryOverwrites ==
    [][(pc = "copy" /\ source_path \in DOMAIN files) =>
         /\ ret'.copy = "true"
         /\ output_dir \in exist'
         /\ binary_path \in DOMAIN files'
         /\ files'[binary_path] = files[source_path]
         /\ source_path \in DOMAIN files'
         /\ files'[source_path] = files[source_path]]_vars

-----------------------------------------------------------------------------
(* Properties of the order of the stages *)

Count(cmd) == Cardinality({i \in 1..Len(calls) : calls[i].cmd = cmd})

AutoFormatFailed ==
    /\ Len(calls) >= 2
    /\ calls[2].cmd = fmt_fix_cmd
    /\ calls[2].rc # "ok"

\* C16: in a run the auto-format command is invoked at most once and the
\* format check at most twice; when the auto-format command fails, build() is
\* over without success and nothing was invoked after it.
C16_RemediationAtMostOnce ==
    /\ Count(fmt_fix_cmd) <= 1
    /\ Count(fmt_cmd) <= 2
    /\ AutoFormatFailed =>
         /\ pc = "done"
         /\ Len(calls) = 2
         /\ ret.build \in {"false", "raised"}
         /\ (calls[2].rc = "nonzero" => ret.build = "false")
         /\ exit_code = 1

C16_Witness ==
    /\ AutoFormatFailed
    /\ calls[2].rc = "nonzero"
    /\ ret.build = "false"
    /\ pc = "done"

\* C17: the lint command directly follows a format check that succeeded, the
\* compile command directly follows the lint command that succeeded, each is
\* invoked at most once, a failure of either ends build() without success as
\* the last command of the run, and build() returns True only after the
\* compile command succeeded.
C17_StagesGated ==
    /\ \A i \in 1..Len(calls) :
         /\ calls[i].cmd = clippy_cmd =>
              (i > 1 /\ calls[i - 1] = [cmd |-> fmt_cmd, rc |-> "ok"])
         /\ calls[i].cmd = build_cmd =>
              (i > 1 /\ calls[i - 1] = [cmd |-> clippy_cmd, rc |-> "ok"])
         /\ (calls[i].cmd \in {clippy_cmd, build_cmd} /\ calls[i].rc # "ok") =>
              /\ i = Len(calls)
              /\ pc = "done"
              /\ ret.build \in {"false", "raised"}
              /\ (calls[i].rc = "nonzero" => ret.build = "false")
    /\ Count(clippy_cmd) <= 1
    /\ Count(build_cmd) <= 1
    /\ ret.build = "true" =>
         \E i \in 1..Len(calls) : calls[i] = [cmd |-> build_cmd, rc |-> "ok"]

C17_Witness ==
    /\ pc = "done"
    /\ Len(calls) = 2
    /\ calls[2] = [cmd |-> clippy_cmd, rc |-> "nonzero"]
    /\ ret.build = "false"

-----------------------------------------------------------------------------
(* Properties of the build flows *)

BuildFlow == ~args.clean /\ ~args.compress_only

\* What the output directory holds.
OutputState(e, f) ==
    <<output_dir \in e,
      [p \in DOMAIN f \cap (OutputFiles \cup {output_dir}) |-> f[p]]>>

OutputUntouched == OutputState(exist', files') = OutputState(exist, files)

\* A file of the output directory is a symbolic link to the compiled binary.
OutputLinksToBinary ==
    \E p \in OutputFiles \cap DOMAIN links.sym : links.sym[p] = source_path

C20_UpxAlwaysRequired ==
    BuildFlow =>
        /\ (ret.deps # "none" /\ ~Exists(upx_path)) =>
              /\ ret.deps = "false"
              /\ ret.build = "false"
              /\ pc = "done"
              /\ exit_code = 1
              /\ calls = <<>>
              /\ \E i \in 1..Len(missing_deps) : missing_deps[i][1] = upx_path
        /\ (pc = "compress" \/ ret.compress # "none") =>
              (Exists(upx_path) /\ compress_err # "ToolMissing")

C20_Witness ==
    /\ DefaultMode
    /\ pc = "done"
    /\ Exists(android_ndk_home)
    /\ Exists(llvm_path)
    /\ ~Exists(upx_path)
    /\ ret.build = "false"
    /\ calls = <<>>

-----------------------------------------------------------------------------
(* Properties of the reports *)

\* The ratio, in hundredths of a percent, is compressed / original * 100 to
\* within half a hundredth.
RatioIsExact(ratio, compressed_size, original_size) ==
    LET twice_error == 2 * (ratio * original_size - compressed_size * 10000) IN
      /\ original_size > 0
      /\ twice_error <= original_size
      /\ 0 - twice_error <= original_size

\* C15: whenever compress() succeeded (it returned True), for every size of
\* the artifact, it reported the size of the original measured before, the
\* size of the duplicate measured after, and their ratio compressed /
\* original * 100 to two decimals; 1,000,000 and 400,000 bytes give 40.00.
C15_RatioReported ==
    ret.compress = "true" =>
        /\ report.made
        /\ binary_path \in DOMAIN files
        /\ compressed_copy \in DOMAIN files
        /\ report.original_size = Len(files[binary_path])
        /\ report.compressed_size = Len(files[compressed_copy])
        /\ RatioIsExact(report.ratio, report.compressed_size,
                        report.original_size)
        /\ ratio_2f(400000, 1000000) = 4000

C15_Witness ==
    /\ pc = "done"
    /\ ret.compress = "true"
    /\ report.made
    /\ Len(files[binary_path]) = 2
    /\ Len(files[compressed_copy]) = 1
    /\ report.ratio = 5000

PipelineCommands == {fmt_cmd, fmt_fix_cmd, clippy_cmd, build_cmd}

\* C18: when a command of the pipeline exits non-zero, its captured standard
\* error, and its captured standard output when non-empty, are printed.
C18_DiagnosticsSurfaced ==
    failure.cmd \in PipelineCommands =>
        /\ failure.stderr => "stderr" \in failure.printed
        /\ failure.stdout => "stdout" \in failure.printed

=============================================================================
